---- MODULE Spec2Model ----
(***************************************************************************)
(* Statistical-arbitrage framework: the z-score signal state machine and   *)
(* its P&L (src/src/signals/zscore.py), the Kalman hedge-ratio estimator   *)
(* (src/src/estimation/kalman.py), the pair screener                       *)
(* (src/src/cointegration/tester.py) and the backtest orchestrator         *)
(* (src/src/backtest/engine.py).                                           *)
(*                                                                         *)
(* Numbers.  A z-score is a triple <<s, p, q>> standing for s * sqrt(p/q),  *)
(* s its sign, p and q >= 0; <<0, 0, 0>> is NaN (0/0) and q = 0 with p > 0 *)
(* is +-infinity.  The                                                     *)
(* thresholds entry_z, exit_z, stop_z are kept in quarter units: k stands  *)
(* for k/4, so the defaults 2.0, 0.5, 3.5 are 8, 2, 14.  Every other        *)
(* fraction is an exact rational <<n, d>> in lowest terms with d > 0;      *)
(* <<0, 0>> is NaN and <<1, 0>>, <<-1, 0>> are +-infinity, as numpy's      *)
(* float64 division yields them.                                           *)
(***************************************************************************)
EXTENDS Integers, Sequences, FiniteSets, TLC

VARIABLES
    \* ZScoreSignalGenerator.generate_signals, one call
    entry_z, exit_z, stop_z,   \* ZScoreSignalGenerator fields (quarter units)
    zscore,                    \* signals['zscore'], indexed 0 .. n-1
    i,                         \* loop index of generate_signals
    position,                  \* the local variable position
    signals_position,          \* signals['position'], indexed 0 .. n-1
    signals_confidence,        \* signals['confidence'], indexed 0 .. n-1
    \* generate_signals followed by compute_signal_pnl, on two price paths
    use_ewm, lookback,         \* ZScoreSignalGenerator fields
    hedge_ratio, intercept,    \* arguments of generate_signals
    tc_bps,                    \* argument of compute_signal_pnl
    prices,                    \* prices[r] = [y |-> series, x |-> series], r in 1 .. 2
    agree,                     \* the two paths agree on every row <= agree
    signals,                   \* signals[r]: the frame generate_signals returns
    pnl,                       \* pnl[r]: the frame compute_signal_pnl returns
    pc,                        \* where the two-path run stands
    \* KalmanHedgeRatio: one filter call, then a replay through online_update
    delta, Ve, initial_mean, initial_cov,   \* KalmanHedgeRatio fields
    kal_y, kal_x,              \* the arguments y, x of filter, indexed 0 .. n-1
    kal_t,                     \* loop index t of filter
    beta, P,                   \* filter's arrays beta, P
    kal_spread, forecast_error,\* filter's arrays spread, forecast_error
    results,                   \* the frame filter returns
    replay,                    \* rows produced by replaying online_update
    kal_pc,                    \* where the estimator stands
    \* PairsBacktester.run, with CointegrationTester.screen_universe inside it
    significance, min_half_life, max_half_life, min_correlation,
    rolling_window,            \* CointegrationTester fields
    window, max_pairs,         \* config['cointegration']['rolling_window'],
                               \* config['execution']['max_pairs']
    n_tickers, n_rows,         \* columns and rows of the price panel
    scr_k,                     \* candidate pairs screen_universe has gone through
    cand,                      \* what the panel holds for the pair last screened
    valid_pairs,               \* screen_universe's valid_pairs
    pairs,                     \* run's pairs
    run_j,                     \* pairs run has gone through
    pair_pnls,                 \* run's pair_pnls (its keys)
    result,                    \* the record run returns
    run_pc                     \* where run stands

sigVars == <<entry_z, exit_z, stop_z, zscore, i, position, signals_position,
             signals_confidence>>

pnlVars == <<use_ewm, lookback, hedge_ratio, intercept, tc_bps, prices, agree,
             signals, pnl, pc>>

kalVars == <<delta, Ve, initial_mean, initial_cov, kal_y, kal_x, kal_t, beta, P,
             kal_spread, forecast_error, results, replay, kal_pc>>

runVars == <<significance, min_half_life, max_half_life, min_correlation,
             rolling_window, window, max_pairs, n_tickers, n_rows, scr_k, cand,
             valid_pairs, pairs, run_j, pair_pnls, result, run_pc>>

vars == <<sigVars, pnlVars, kalVars, runVars>>

----------------------------------------------------------------------------
(* Bounds *)

\* Number of loop iterations of generate_signals (the series has MaxSteps + 1 rows).
MaxSteps == 3

----------------------------------------------------------------------------
(* z-score values and comparisons *)

NaN == <<0, 0, 0>>

\* np.isnan(z)
IsNaN(z) == z[2] = 0 /\ z[3] = 0

\* z > k/4, for z = s * sqrt(p/q): by the signs, then by the squares 16 p and k^2 q.
ZGt(z, k) ==
    LET s == z[1]
        p == z[2]
        q == z[3]
    IN  IF IsNaN(z) THEN FALSE
        ELSE IF q = 0 THEN s > 0
        ELSE IF s >= 0 /\ k < 0 THEN TRUE
        ELSE IF s < 0 /\ k >= 0 THEN FALSE
        ELSE IF s >= 0 THEN 16 * p > k * k * q
        ELSE 16 * p < k * k * q

\* z < k/4
ZLt(z, k) == ZGt(<<-z[1], z[2], z[3]>>, -k)

\* The z-scores fed to the state machine: q/4 for a few q on both sides of every
\* threshold, the thresholds themselves, and NaN.
ZQuarters == {-16, -10, -8, -4, -2, 0, 2, 4, 8, 10, 16}

ZVals == {<<IF q > 0 THEN 1 ELSE IF q < 0 THEN -1 ELSE 0, q * q, 16>> : q \in ZQuarters}
             \cup {NaN}

\* (entry_z, exit_z, stop_z) the generator is constructed with: the defaults
\* (2.0, 0.5, 3.5) and a second configuration (1.0, 0.5, 2.5).
Configs == {<<8, 2, 14>>, <<4, 2, 10>>}

----------------------------------------------------------------------------
(* ZScoreSignalGenerator.generate_signals: the loop body, lines 66-76 *)

M_NextPosition_EntryInclusive(pos, z, en, ex, st) ==
    IF pos = 0 THEN
        IF ~ZGt(z, -en) THEN 1
        ELSE IF ~ZLt(z, en) THEN -1
        ELSE pos
    ELSE IF pos = 1 THEN
        IF ZGt(z, -ex) \/ ZGt(z, st) THEN 0 ELSE pos
    ELSE IF pos = -1 THEN
        IF ZLt(z, ex) \/ ZLt(z, -st) THEN 0 ELSE pos
    ELSE pos

\* A stop-and-reverse rule: a LongSpread closed above entry_z, or a ShortSpread
\* closed below -entry_z, opens the opposite position on the same row.
M_NextPosition_StopAndReverse(pos, z, en, ex, st) ==
    IF pos = 0 THEN
        IF ZLt(z, -en) THEN 1
        ELSE IF ZGt(z, en) THEN -1
        ELSE pos
    ELSE IF pos = 1 THEN
        IF ZGt(z, en) THEN -1
        ELSE IF ZGt(z, -ex) \/ ZGt(z, st) THEN 0 ELSE pos
    ELSE IF pos = -1 THEN
        IF ZLt(z, -en) THEN 1
        ELSE IF ZLt(z, ex) \/ ZLt(z, -st) THEN 0 ELSE pos
    ELSE pos

NextPosition(pos, z, en, ex, st) ==
    IF pos = 0 THEN
        IF ZLt(z, -en) THEN 1
        ELSE IF ZGt(z, en) THEN -1
        ELSE pos
    ELSE IF pos = 1 THEN
        IF ZGt(z, -ex) \/ ZGt(z, st) THEN 0 ELSE pos
    ELSE IF pos = -1 THEN
        IF ZLt(z, ex) \/ ZLt(z, -st) THEN 0 ELSE pos
    ELSE pos

\* signals['confidence'], lines 80-82: clip((|z| - exit_z) / (entry_z - exit_z), 0, 1)
\* for entry_z > exit_z, kept as the class of the value: 0, 1, strictly between
\* the two ("mid"), or NaN.
Confidence(z, en, ex) ==
    IF IsNaN(z) THEN "nan"
    ELSE IF ~ZGt(z, ex) /\ ~ZLt(z, -ex) THEN "0"
    ELSE IF ~ZLt(z, en) \/ ~ZGt(z, -en) THEN "1"
    ELSE "mid"

\* Number of rows of the signals frame.
NRows == MaxSteps + 1

\* Lines 55-60.  compute_zscore leaves row 0 undefined in both of its modes
\* (a standard deviation needs two observations).
InitSignals ==
    /\ \E c \in Configs : entry_z = c[1] /\ exit_z = c[2] /\ stop_z = c[3]
    /\ zscore \in {f \in [0 .. NRows - 1 -> ZVals] : f[0] = NaN}
    /\ i = 1
    /\ position = 0
    /\ signals_position = [j \in 0 .. NRows - 1 |-> 0]
    /\ signals_confidence = [j \in 0 .. NRows - 1 |-> "unset"]

IdleSignals ==
    /\ entry_z = 0 /\ exit_z = 0 /\ stop_z = 0
    /\ zscore = <<>>
    /\ i = 0
    /\ position = 0
    /\ signals_position = <<>>
    /\ signals_confidence = <<>>

\* One iteration of `for i in range(1, len(signals))`, lines 61-78.
LoopStep ==
    /\ i < NRows
    /\ LET z == zscore[i] IN
         IF IsNaN(z)
         THEN UNCHANGED <<position, signals_position>>
         ELSE /\ position' = NextPosition(position, z, entry_z, exit_z, stop_z)
              /\ signals_position' = [signals_position EXCEPT ![i] = position']
    /\ i' = i + 1
    /\ UNCHANGED <<entry_z, exit_z, stop_z, zscore, signals_confidence>>
    /\ UNCHANGED <<pnlVars, kalVars, runVars>>

\* After the loop, lines 80-83: the confidence column, and return.
ReturnSignals ==
    /\ i = NRows
    /\ signals_confidence = [j \in 0 .. NRows - 1 |-> "unset"]
    /\ signals_confidence' =
           [j \in 0 .. NRows - 1 |-> Confidence(zscore[j], entry_z, exit_z)]
    /\ UNCHANGED <<entry_z, exit_z, stop_z, zscore, i, position, signals_position>>
    /\ UNCHANGED <<pnlVars, kalVars, runVars>>

----------------------------------------------------------------------------
(* Exact rationals *)

Abs(a) == IF a < 0 THEN -a ELSE a

Sign(a) == IF a > 0 THEN 1 ELSE IF a < 0 THEN -1 ELSE 0

RECURSIVE GCD(_, _)
GCD(a, b) == IF b = 0 THEN a ELSE GCD(b, a % b)

QNaN == <<0, 0>>

QIsNaN(a) == a[1] = 0 /\ a[2] = 0

\* n / d in lowest terms; n / 0 is +-infinity and 0 / 0 is NaN.
QNorm(n, d) ==
    IF d = 0 THEN <<Sign(n), 0>>
    ELSE LET g == GCD(Abs(n), Abs(d))
         IN  <<(Sign(d) * n) \div g, Abs(d) \div g>>

QInt(k) == <<k, 1>>

QNeg(a) == <<-a[1], a[2]>>

QAdd(a, b) ==
    IF QIsNaN(a) \/ QIsNaN(b) THEN QNaN
    ELSE IF a[2] = 0 /\ b[2] = 0 THEN (IF a[1] = b[1] THEN a ELSE QNaN)
    ELSE QNorm(a[1] * b[2] + b[1] * a[2], a[2] * b[2])

QSub(a, b) == QAdd(a, QNeg(b))

QMul(a, b) ==
    IF QIsNaN(a) \/ QIsNaN(b) THEN QNaN
    ELSE QNorm(a[1] * b[1], a[2] * b[2])

QDiv(a, b) ==
    IF QIsNaN(a) \/ QIsNaN(b) THEN QNaN
    ELSE QNorm(a[1] * b[2], a[2] * b[1])

RECURSIVE SumOver(_, _, _)
SumOver(f, lo, hi) == IF lo > hi THEN 0 ELSE f[hi] + SumOver(f, lo, hi - 1)

RECURSIVE Pow(_, _)
Pow(b, e) == IF e = 0 THEN 1 ELSE b * Pow(b, e - 1)

----------------------------------------------------------------------------
(* ZScoreSignalGenerator: compute_spread, compute_zscore, generate_signals and *)
(* compute_signal_pnl as functions of the price series                         *)

\* Line 39.
compute_spread(y, x, hr, ic) == [t \in DOMAIN y |-> y[t] - hr * x[t] - ic]

\* Lines 46-48 at row t: (s[t] - mean) / std over the window of the last L rows
\* (sample standard deviation), NaN before the window is full.  With S1 and S2
\* the window's sums of s and s^2, D = L s[t] - S1 and V = L S2 - S1^2, the
\* z-score has the sign of D and the square D^2 (L - 1) / (L V); a constant
\* window gives 0/0.
RollingZ(s, t, L) ==
    IF t < L - 1 THEN NaN
    ELSE LET S1 == SumOver(s, t - L + 1, t)
             S2 == SumOver([j \in DOMAIN s |-> s[j] * s[j]], t - L + 1, t)
             D  == L * s[t] - S1
             V  == L * S2 - S1 * S1
         IN  <<Sign(D), D * D * (L - 1), L * V>>

\* Lines 43-44 and 48 at row t for ewm_halflife = 1: row j <= t has weight
\* (1/2)^(t - j), here scaled to 2^j.  With A, N, Q the weighted sums of 1, s and
\* s^2 and B the sum of the squared weights, mean = N / A and the debiased
\* variance is (A Q - N^2) / (A^2 - B), NaN at row 0 where A^2 = B; the z-score
\* has the sign of A s[t] - N and the square
\* (A s[t] - N)^2 (A^2 - B) / (A^2 (A Q - N^2)).
EwmZ(s, t) ==
    LET w == [j \in DOMAIN s |-> Pow(2, j)]
        A == SumOver(w, 0, t)
        N == SumOver([j \in DOMAIN s |-> w[j] * s[j]], 0, t)
        Q == SumOver([j \in DOMAIN s |-> w[j] * s[j] * s[j]], 0, t)
        B == SumOver([j \in DOMAIN s |-> w[j] * w[j]], 0, t)
        d == A * s[t] - N
    IN  <<Sign(d), d * d * (A * A - B), A * A * (A * Q - N * N)>>

\* A lookahead bug: standardising by the whole sample's mean and deviation.
M_compute_zscore_FullSample(s, ewm, L) ==
    [t \in DOMAIN s |-> RollingZ(s, Cardinality(DOMAIN s) - 1, Cardinality(DOMAIN s))]

\* Lines 41-48.
compute_zscore(s, ewm, L) ==
    [t \in DOMAIN s |-> IF ewm THEN EwmZ(s, t) ELSE RollingZ(s, t, L)]

\* The local variable position after iteration k of the loop of lines 60-78.
RECURSIVE CarriedPosition(_, _, _, _, _)
CarriedPosition(zs, k, en, ex, st) ==
    IF k = 0 THEN 0
    ELSE LET p == CarriedPosition(zs, k - 1, en, ex, st)
         IN  IF IsNaN(zs[k]) THEN p ELSE NextPosition(p, zs[k], en, ex, st)

\* Lines 50-83: the frame generate_signals returns.
generate_signals(y, x, hr, ic, ewm, L, en, ex, st) ==
    LET spread == compute_spread(y, x, hr, ic)
        zs     == compute_zscore(spread, ewm, L)
    IN  [spread     |-> spread,
         zscore     |-> zs,
         position   |-> [t \in DOMAIN y |->
                            IF t = 0 \/ IsNaN(zs[t]) THEN 0
                            ELSE CarriedPosition(zs, t, en, ex, st)],
         confidence |-> [t \in DOMAIN y |-> Confidence(zs[t], en, ex)]]

\* Series.pct_change at row t.
PctChange(p, t) == IF t = 0 THEN QNaN ELSE QNorm(p[t] - p[t - 1], p[t - 1])

\* Line 88.
SpreadRet(y, x, hr, t) ==
    QSub(PctChange(y, t), QMul(QInt(hr), PctChange(x, t)))

\* Line 89: signals['position'].shift(1) * spread_ret.
StrategyReturn(pos, y, x, hr, t) ==
    IF t = 0 THEN QNaN ELSE QMul(QInt(pos[t - 1]), SpreadRet(y, x, hr, t))

\* Line 90: signals['position'].diff().abs() * tc_bps / 10000.
TransactionCosts(pos, tc, t) ==
    IF t = 0 THEN QNaN ELSE QNorm(Abs(pos[t] - pos[t - 1]) * tc, 10000)

\* Line 92: (1 + net_return).cumprod(), which skips the NaN rows.
RECURSIVE CumProd(_, _)
CumProd(net, t) ==
    LET before == IF t = 0 THEN QInt(1) ELSE CumProd(net, t - 1)
    IN  IF QIsNaN(net[t]) THEN before ELSE QMul(before, QAdd(QInt(1), net[t]))

\* Lines 85-93: the frame compute_signal_pnl returns.
compute_signal_pnl(sig, y, x, hr, tc) ==
    LET sr  == [t \in DOMAIN y |-> StrategyReturn(sig.position, y, x, hr, t)]
        cst == [t \in DOMAIN y |-> TransactionCosts(sig.position, tc, t)]
        net == [t \in DOMAIN y |-> QSub(sr[t], cst[t])]
    IN  [strategy_return   |-> sr,
         transaction_costs |-> cst,
         net_return        |-> net,
         cumulative_return |-> [t \in DOMAIN y |->
                                   IF QIsNaN(net[t]) THEN QNaN ELSE CumProd(net, t)]]

\* Rows of the price series of the two-path run.
PnlRows == 4

YVals == {1, 2, 3}

XVals == {1, 2}

\* A generator with thresholds (0.25, 0.0, 0.75): the z-scores of three or four
\* small prices stay below 2.
PnlConfig == <<1, 0, 3>>

\* The prices (y, x) path 2 takes once it leaves path 1.
Continuations == {<<1, 1>>}

IdleRun ==
    /\ significance = 0 /\ min_half_life = QNaN /\ max_half_life = QNaN
    /\ min_correlation = 0 /\ rolling_window = 0
    /\ window = 0 /\ max_pairs = 0
    /\ n_tickers = 0 /\ n_rows = 0
    /\ scr_k = 0 /\ cand = <<>> /\ valid_pairs = <<>>
    /\ pairs = <<>> /\ run_j = 0 /\ pair_pnls = {}
    /\ result = <<>>
    /\ run_pc = "idle"

IdleKalman ==
    /\ delta = QNaN /\ Ve = QNaN /\ initial_mean = QNaN /\ initial_cov = QNaN
    /\ kal_y = <<>> /\ kal_x = <<>>
    /\ kal_t = 0
    /\ beta = <<>> /\ P = <<>> /\ kal_spread = <<>> /\ forecast_error = <<>>
    /\ results = <<>>
    /\ replay = <<>>
    /\ kal_pc = "idle"

\* Path 2 is path 1 up to row a and the constant (cy, cx) after it.
Continued(p, a, cy, cx) ==
    [y |-> [t \in DOMAIN p.y |-> IF t <= a THEN p.y[t] ELSE cy],
     x |-> [t \in DOMAIN p.x |-> IF t <= a THEN p.x[t] ELSE cx]]

InitPnl ==
    /\ entry_z = PnlConfig[1] /\ exit_z = PnlConfig[2] /\ stop_z = PnlConfig[3]
    /\ zscore = <<>> /\ i = 0 /\ position = 0
    /\ signals_position = <<>> /\ signals_confidence = <<>>
    /\ use_ewm \in BOOLEAN
    /\ lookback = 2
    /\ hedge_ratio \in {1, 2}
    /\ intercept = 0
    /\ tc_bps = 2500
    /\ agree \in 0 .. PnlRows - 1
    /\ \E p \in [y : [0 .. PnlRows - 1 -> YVals], x : [0 .. PnlRows - 1 -> XVals]],
          c \in Continuations :
          prices = <<p, Continued(p, agree, c[1], c[2])>>
    /\ signals = <<>>
    /\ pnl = <<>>
    /\ pc = "start"
    /\ IdleKalman /\ IdleRun

IdlePnl ==
    /\ use_ewm = FALSE /\ lookback = 0
    /\ hedge_ratio = 0 /\ intercept = 0 /\ tc_bps = 0
    /\ prices = <<>> /\ agree = 0
    /\ signals = <<>> /\ pnl = <<>>
    /\ pc = "idle"

\* generate_signals on each of the two paths.
GenerateSignals ==
    /\ pc = "start"
    /\ signals' = [r \in 1 .. 2 |->
                      generate_signals(prices[r].y, prices[r].x, hedge_ratio, intercept,
                                       use_ewm, lookback, entry_z, exit_z, stop_z)]
    /\ pc' = "signals"
    /\ UNCHANGED <<use_ewm, lookback, hedge_ratio, intercept, tc_bps, prices, agree, pnl>>
    /\ UNCHANGED <<sigVars, kalVars, runVars>>

\* compute_signal_pnl on each of the two paths.
ComputeSignalPnl ==
    /\ pc = "signals"
    /\ pnl' = [r \in 1 .. 2 |->
                  compute_signal_pnl(signals[r], prices[r].y, prices[r].x,
                                     hedge_ratio, tc_bps)]
    /\ pc' = "done"
    /\ UNCHANGED <<use_ewm, lookback, hedge_ratio, intercept, tc_bps, prices, agree,
                   signals>>
    /\ UNCHANGED <<sigVars, kalVars, runVars>>

NextPnl == GenerateSignals \/ ComputeSignalPnl

SpecPnl == InitPnl /\ [][NextPnl]_vars


----------------------------------------------------------------------------
(* KalmanHedgeRatio (src/src/estimation/kalman.py) *)

\* Rows of the series handed to filter.
KalRows == 3

\* Line 27 and line 52.
Vw(d) == QDiv(d, QSub(QInt(1), d))

\* Line 35 and line 54: S = x * P_pred * x + Ve.
InnovationVariance(P_pred, x_t, ve) == QAdd(QMul(QMul(x_t, P_pred), x_t), ve)

\* Line 36 and line 55: K = P_pred * x / S.  The operands are numpy scalars, so
\* a zero S with a zero numerator gives NaN (0 / 0) and the step goes on.
Gain(P_pred, x_t, S) == QDiv(QMul(P_pred, x_t), S)

\* The body of filter's loop, lines 30-41, for the previous row (beta_prev, P_prev)
\* and the observations x_t, y_t: <<beta[t], P[t], e>>.
FilterUpdate(d, ve, beta_prev, P_prev, x_t, y_t) ==
    LET beta_pred == beta_prev
        P_pred    == QAdd(P_prev, Vw(d))
        e         == QSub(y_t, QMul(beta_pred, x_t))
        S         == InnovationVariance(P_pred, x_t, ve)
        K         == Gain(P_pred, x_t, S)
    IN  <<QAdd(beta_pred, QMul(K, e)),
          QMul(QSub(QInt(1), QMul(K, x_t)), P_pred),
          e>>

\* A replay that forgets the process noise in the prediction.
M_online_update_NoProcessNoise(d, ve, y_new, x_new, beta_prev, P_prev) ==
    LET P_pred == P_prev
        S      == QAdd(QMul(QMul(x_new, P_pred), x_new), ve)
        K      == QDiv(QMul(P_pred, x_new), S)
        e      == QSub(y_new, QMul(beta_prev, x_new))
    IN  <<QAdd(beta_prev, QMul(K, e)),
          QMul(QSub(QInt(1), QMul(K, x_new)), P_pred),
          e>>

\* online_update, lines 50-57.
online_update(d, ve, y_new, x_new, beta_prev, P_prev) ==
    LET P_pred == QAdd(P_prev, Vw(d))
        S      == InnovationVariance(P_pred, x_new, ve)
        K      == Gain(P_pred, x_new, S)
        e      == QSub(y_new, QMul(beta_prev, x_new))
    IN  <<QAdd(beta_prev, QMul(K, e)),
          QMul(QSub(QInt(1), QMul(K, x_new)), P_pred),
          e>>

\* np.sqrt(P), kept as the number under the root.
SqrtOf(a) == <<"sqrt", a>>

KalIndex == 0 .. KalRows - 1

\* The estimator as constructed (lines 13-18) and the series handed to filter:
\* delta in {1/2, 1/3}, observation_noise in {0, 1, 2} (the constructor stores
\* what it is given), initial_mean in {0, 1}, initial_cov in {0, 1}; or no row
\* at all.
InitKalman ==
    /\ delta \in {<<1, 2>>, <<1, 3>>}
    /\ Ve \in {QInt(0), QInt(1), QInt(2)}
    /\ initial_mean \in {QInt(0), QInt(1)}
    /\ initial_cov \in {QInt(0), QInt(1)}
    /\ \/ /\ kal_y \in [KalIndex -> {QInt(1), QInt(2)}]
          /\ kal_x \in [KalIndex -> {QInt(0), QInt(1), QInt(2)}]
       \/ /\ kal_y = <<>>
          /\ kal_x = <<>>
    /\ kal_t = 0
    /\ beta = <<>> /\ P = <<>> /\ kal_spread = <<>> /\ forecast_error = <<>>
    /\ results = <<>>
    /\ replay = <<>>
    /\ kal_pc = "filter"
    /\ IdleSignals /\ IdlePnl /\ IdleRun

kalParams == <<delta, Ve, initial_mean, initial_cov, kal_y, kal_x>>

\* filter, lines 22-27: the arrays are allocated and row 0 is set; with no row,
\* the assignment to beta[0] raises IndexError.
FilterStart ==
    /\ kal_pc = "filter"
    /\ IF DOMAIN kal_y = {}
       THEN /\ kal_pc' = "IndexError"
            /\ UNCHANGED <<kal_t, beta, P, kal_spread, forecast_error>>
       ELSE /\ beta' = [k \in DOMAIN kal_y |-> IF k = 0 THEN initial_mean ELSE QInt(0)]
            /\ P' = [k \in DOMAIN kal_y |-> IF k = 0 THEN initial_cov ELSE QInt(0)]
            /\ kal_spread' = [k \in DOMAIN kal_y |-> QInt(0)]
            /\ forecast_error' = [k \in DOMAIN kal_y |-> QInt(0)]
            /\ kal_t' = 1
            /\ kal_pc' = "loop"
    /\ UNCHANGED <<kalParams, results, replay>>
    /\ UNCHANGED <<sigVars, pnlVars, runVars>>

\* One iteration of `for t in range(1, n)`, lines 29-41.
FilterStep ==
    /\ kal_pc = "loop"
    /\ kal_t < Cardinality(DOMAIN kal_y)
    /\ LET u == FilterUpdate(delta, Ve, beta[kal_t - 1], P[kal_t - 1],
                             kal_x[kal_t], kal_y[kal_t])
       IN  /\ beta' = [beta EXCEPT ![kal_t] = u[1]]
           /\ P' = [P EXCEPT ![kal_t] = u[2]]
           /\ kal_spread' = [kal_spread EXCEPT ![kal_t] = u[3]]
           /\ forecast_error' = [forecast_error EXCEPT ![kal_t] = u[3]]
    /\ kal_t' = kal_t + 1
    /\ UNCHANGED <<kalParams, results, replay, kal_pc>>
    /\ UNCHANGED <<sigVars, pnlVars, runVars>>

\* After the loop, lines 43-48: the frame filter returns.
FilterReturn ==
    /\ kal_pc = "loop"
    /\ kal_t = Cardinality(DOMAIN kal_y)
    /\ results' = [hedge_ratio     |-> beta,
                   hedge_ratio_std |-> [k \in DOMAIN kal_y |-> SqrtOf(P[k])],
                   spread          |-> [k \in DOMAIN kal_y |->
                                           QSub(kal_y[k], QMul(beta[k], kal_x[k]))],
                   forecast_error  |-> forecast_error]
    /\ replay' = <<[beta |-> initial_mean, P |-> initial_cov, e |-> QInt(0)]>>
    /\ kal_pc' = "replay"
    /\ UNCHANGED <<kalParams, kal_t, beta, P, kal_spread, forecast_error>>
    /\ UNCHANGED <<sigVars, pnlVars, runVars>>

\* The caller replays the path: the next online_update, from the replay's own
\* last row (starting at the configured initial_mean and initial_cov), appends a row.
OnlineStep ==
    /\ kal_pc = "replay"
    /\ Len(replay) < Cardinality(DOMAIN kal_y)
    /\ LET k    == Len(replay)
           last == replay[k]
           u    == online_update(delta, Ve, kal_y[k], kal_x[k], last.beta, last.P)
       IN  replay' = Append(replay, [beta |-> u[1], P |-> u[2], e |-> u[3]])
    /\ UNCHANGED <<kalParams, kal_t, beta, P, kal_spread, forecast_error, results, kal_pc>>
    /\ UNCHANGED <<sigVars, pnlVars, runVars>>

NextKalman == FilterStart \/ FilterStep \/ FilterReturn \/ OnlineStep

SpecKalman == InitKalman /\ [][NextKalman]_vars

----------------------------------------------------------------------------
(* CointegrationTester.screen_universe (src/src/cointegration/tester.py) and *)
(* PairsBacktester.run (src/src/backtest/engine.py).  p-values and the       *)
(* significance are in percent, correlations in tenths; a half-life is kept  *)
(* as a multiple of ln 2, and 0.6931 < ln 2 < 0.6932 decides its comparison  *)
(* with the bounds, which are in days.                                       *)

\* Columns of the price panel.
MaxTickers == 3

QInf == <<1, 0>>

QLt(a, b) == a[1] * b[2] < b[1] * a[2]

Min(a, b) == IF a <= b THEN a ELSE b

\* itertools.combinations(tickers, 2), line 71, from the pair (a, b) on.
RECURSIVE CombinationsFrom(_, _, _)
CombinationsFrom(a, b, n) ==
    IF a >= n - 1 THEN <<>>
    ELSE IF b >= n THEN CombinationsFrom(a + 1, a + 2, n)
    ELSE <<<<a, b>>>> \o CombinationsFrom(a, b + 1, n)

Combinations(n) == CombinationsFrom(0, 1, n)

\* estimate_half_life, lines 61-63, for the fitted theta: +infinity, or
\* -ln(2) / theta as a multiple of ln 2.
estimate_half_life(theta) ==
    IF theta[1] >= 0 THEN QInf ELSE QDiv(QInt(-1), theta)

\* Line 94: min_half_life <= half_life <= max_half_life, for half_life = m ln 2.
HalfLifeInBounds(m, lo, hi) ==
    /\ IF m = QInf THEN lo # QInf
       ELSE LET r == QDiv(lo, m) IN r[1] * 10000 <= 6931 * r[2]
    /\ IF hi = QInf THEN TRUE
       ELSE IF m = QInf THEN FALSE
       ELSE LET r == QDiv(hi, m) IN 6932 * r[2] <= r[1] * 10000

\* What the panel holds for one candidate pair: the correlation of the returns,
\* the rows missing from the common index, whether engle_granger_test raises, the
\* cointegration p-value, whether the least squares of estimate_half_life raises,
\* and the theta it fits.
CandidateData ==
    [correlation : {3, -7}, missing : {0, 10}, eg : {"ok", "raise"},
     hedge_ratio : {1}, intercept : {0}, coint_pvalue : {1, 10}, adf_pvalue : {1},
     hl : {"ok", "raise"},
     theta : {<<-1, 5>>, <<-1, 10>>, <<-1, 50>>, <<0, 1>>, <<1, 10>>}]

\* The loop body of screen_universe, lines 72-104, on the data c of one pair over
\* `rows` rows: how far it gets.
ScreenStage(c, rows, min_corr, rw, sig, lo, hi) ==
    IF Abs(c.correlation) < min_corr THEN "correlation"
    ELSE IF rows - c.missing < rw THEN "overlap"
    ELSE IF c.eg = "raise" THEN "eg_raised"
    ELSE IF c.coint_pvalue > sig THEN "pvalue"
    ELSE IF c.hl = "raise" THEN "hl_raised"
    ELSE IF ~HalfLifeInBounds(estimate_half_life(c.theta), lo, hi) THEN "bounds"
    ELSE "valid"

\* The fields the loop body never reads for a pair are kept at one value.
ReadsOnly(c, stage) ==
    /\ stage = "correlation" => c.missing = 0
    /\ stage \in {"correlation", "overlap"} => c.eg = "ok"
    /\ stage \in {"correlation", "overlap", "eg_raised"} => c.coint_pvalue = 1
    /\ stage \in {"correlation", "overlap", "eg_raised", "pvalue"} => c.hl = "ok"
    /\ stage \in {"correlation", "overlap", "eg_raised", "pvalue", "hl_raised"}
         => c.theta = <<-1, 10>>

\* Lines 97-104.
ValidPair(c, tk) ==
    [ticker_y |-> tk[1], ticker_x |-> tk[2],
     hedge_ratio |-> c.hedge_ratio, intercept |-> c.intercept,
     coint_pvalue |-> c.coint_pvalue, adf_pvalue |-> c.adf_pvalue,
     half_life |-> estimate_half_life(c.theta), correlation |-> c.correlation]

RECURSIVE InsertByHalfLife(_, _)
InsertByHalfLife(sorted, e) ==
    IF sorted = <<>> THEN <<e>>
    ELSE IF QLt(e.half_life, Head(sorted).half_life) THEN <<e>> \o sorted
    ELSE <<Head(sorted)>> \o InsertByHalfLife(Tail(sorted), e)

\* A sort left out.
M_SortByHalfLife_Unsorted(ps) == ps

\* Line 106: valid_pairs.sort(key=lambda p: p['half_life']), a stable sort.
RECURSIVE SortByHalfLife(_)
SortByHalfLife(ps) ==
    IF ps = <<>> THEN <<>>
    ELSE InsertByHalfLife(SortByHalfLife(SubSeq(ps, 1, Len(ps) - 1)), ps[Len(ps)])

\* prices.iloc[:window] and prices.iloc[window:], lines 37 and 42: their rows.
ScreenRows == Min(n_rows, window)

TradingRows == IF n_rows > window THEN n_rows - window ELSE 0

\* _compute_metrics, lines 58-80: the names of the statistics.
MetricNames ==
    {"total_return", "annualized_return", "annualized_volatility", "sharpe_ratio",
     "max_drawdown", "win_rate", "profit_factor", "num_trading_days",
     "avg_daily_return", "skewness", "kurtosis"}

\* The backtester and its tester as constructed (engine.py lines 16-30, which
\* leave the tester's min_correlation 0.5 and rolling_window 252 at their
\* defaults), and the panel handed to run.
InitRun ==
    /\ significance = 5
    /\ min_half_life = QInt(5)
    /\ max_half_life \in {QInt(120), QInf}
    /\ min_correlation = 5
    /\ rolling_window = 252
    /\ window \in {252, 300}
    /\ max_pairs \in {1, 2}
    /\ n_tickers \in 0 .. MaxTickers
    /\ n_rows \in {252, 400}
    /\ scr_k = 0 /\ cand = <<>> /\ valid_pairs = <<>>
    /\ pairs = <<>> /\ run_j = 0 /\ pair_pnls = {}
    /\ result = <<>>
    /\ run_pc = "start"
    /\ IdleSignals /\ IdlePnl /\ IdleKalman

runConfig == <<significance, min_half_life, max_half_life, min_correlation,
               rolling_window, window, max_pairs, n_tickers, n_rows>>

\* run, lines 33-37, into screen_universe, lines 66-69.
RunStart ==
    /\ run_pc = "start"
    /\ scr_k' = 0
    /\ valid_pairs' = <<>>
    /\ run_pc' = "screen"
    /\ UNCHANGED <<runConfig, cand, pairs, run_j, pair_pnls, result>>
    /\ UNCHANGED <<sigVars, pnlVars, kalVars>>

\* One iteration of the loop of screen_universe, lines 71-104.  Only
\* engle_granger_test is inside the try; an exception of estimate_half_life
\* (line 93) leaves screen_universe and run.
ScreenPair ==
    /\ run_pc = "screen"
    /\ scr_k < Len(Combinations(n_tickers))
    /\ \E c \in CandidateData :
         LET stage == ScreenStage(c, ScreenRows, min_correlation, rolling_window,
                                  significance, min_half_life, max_half_life)
         IN  /\ ReadsOnly(c, stage)
             /\ cand' = c
             /\ valid_pairs' =
                    IF stage = "valid"
                    THEN Append(valid_pairs,
                                ValidPair(c, Combinations(n_tickers)[scr_k + 1]))
                    ELSE valid_pairs
             /\ run_pc' = IF stage = "hl_raised" THEN "LinAlgError" ELSE "screen"
    /\ scr_k' = scr_k + 1
    /\ UNCHANGED <<runConfig, pairs, run_j, pair_pnls, result>>
    /\ UNCHANGED <<sigVars, pnlVars, kalVars>>

\* The end of screen_universe, lines 106-108.
ScreenReturn ==
    /\ run_pc = "screen"
    /\ scr_k = Len(Combinations(n_tickers))
    /\ valid_pairs' = SortByHalfLife(valid_pairs)
    /\ run_pc' = "screened"
    /\ UNCHANGED <<runConfig, scr_k, cand, pairs, run_j, pair_pnls, result>>
    /\ UNCHANGED <<sigVars, pnlVars, kalVars>>

\* run, lines 37-43.
RunSelect ==
    /\ run_pc = "screened"
    /\ IF valid_pairs = <<>>
       THEN /\ result' = [metrics |-> {}, portfolio_returns |-> <<>>]
            /\ run_pc' = "returned"
            /\ UNCHANGED <<pairs, run_j, pair_pnls>>
       ELSE /\ pairs' = SubSeq(valid_pairs, 1, Min(max_pairs, Len(valid_pairs)))
            /\ run_j' = 0
            /\ pair_pnls' = {}
            /\ run_pc' = "pairs"
            /\ UNCHANGED result
    /\ UNCHANGED <<runConfig, scr_k, cand, valid_pairs>>
    /\ UNCHANGED <<sigVars, pnlVars, kalVars>>

\* One iteration of the loop of run, lines 45-50.  On a trading window with no
\* row, self.kalman.filter raises IndexError (kalman.py line 26).
RunPair ==
    /\ run_pc = "pairs"
    /\ run_j < Len(pairs)
    /\ IF TradingRows = 0
       THEN /\ run_pc' = "IndexError"
            /\ UNCHANGED <<run_j, pair_pnls>>
       ELSE /\ pair_pnls' = pair_pnls \cup
                              {<<pairs[run_j + 1].ticker_y, pairs[run_j + 1].ticker_x>>}
            /\ run_j' = run_j + 1
            /\ UNCHANGED run_pc
    /\ UNCHANGED <<runConfig, scr_k, cand, valid_pairs, pairs, result>>
    /\ UNCHANGED <<sigVars, pnlVars, kalVars>>

\* run, lines 52-55: the mean of the pairs' net returns (NaN on the first row,
\* where every net return is NaN) and the metrics of its non-NaN rows.
RunReturn ==
    /\ run_pc = "pairs"
    /\ run_j = Len(pairs)
    /\ result' = [portfolio_returns |->
                      [r \in 1 .. TradingRows |-> IF r = 1 THEN "nan" ELSE "number"],
                  pair_results |-> pair_pnls,
                  metrics |-> IF TradingRows <= 1 THEN {} ELSE MetricNames,
                  pairs_selected |-> pairs]
    /\ run_pc' = "returned"
    /\ UNCHANGED <<runConfig, scr_k, cand, valid_pairs, pairs, run_j, pair_pnls>>
    /\ UNCHANGED <<sigVars, pnlVars, kalVars>>

NextRun ==
    RunStart \/ ScreenPair \/ ScreenReturn \/ RunSelect \/ RunPair \/ RunReturn

SpecRun == InitRun /\ [][NextRun]_vars

Init == InitSignals /\ IdlePnl /\ IdleKalman /\ IdleRun

Next == LoopStep \/ ReturnSignals

Spec == Init /\ [][Next]_vars

----------------------------------------------------------------------------
(* Claims about the signal state machine (specification Spec) *)

C2_Hysteresis ==
    ( /\ i > 3
      /\ exit_z < entry_z /\ entry_z < stop_z
      /\ ZGt(zscore[1], entry_z)
      /\ ZLt(zscore[2], exit_z)
      /\ ZGt(zscore[3], stop_z) )
    => /\ signals_position[0] = 0
       /\ signals_position[1] = -1
       /\ signals_position[2] = 0
       /\ signals_position[3] = 0

\* C3: at every step whose z-score is NaN, wherever in the series it occurs, the
\* position recorded for that step equals the position recorded for the previous
\* step.
C3_NaNPersists ==
    \A j \in 1 .. i - 1 :
        IsNaN(zscore[j]) => signals_position[j] = signals_position[j - 1]

\* C4: stop-loss: whenever a non-flat position is held and the current z-score
\* satisfies |z| > stop_z, generate_signals moves the position to Flat at that
\* step.
C4_StopLoss ==
    [][ ( /\ i < NRows
          /\ position # 0
          /\ (ZGt(zscore[i], stop_z) \/ ZLt(zscore[i], -stop_z)) )
        => (position' = 0 /\ signals_position'[i] = 0)
      ]_vars

\* Costs per unit of turnover handed to compute_signal_pnl, in basis points
\* (line 85: the default is 5).
TcBpsVals == {5, 2500}

\* C12: in the position column generate_signals records, two consecutive rows
\* never differ by more than 1 (no direct LongSpread <-> ShortSpread reversal:
\* every change passes through Flat), so the transaction cost compute_signal_pnl
\* charges at any row never exceeds tc_bps / 10000.
C12_NoDirectReversal ==
    \A t \in 1 .. NRows - 1 :
        /\ Abs(signals_position[t] - signals_position[t - 1]) <= 1
        /\ ~(signals_position[t] * signals_position[t - 1] = -1)
        /\ \A tc \in TcBpsVals :
               LET cost == TransactionCosts(signals_position, tc, t)
               IN  /\ cost[2] > 0
                   /\ cost[1] * 10000 <= tc * cost[2]

\* C12 witness: a finished run that went ShortSpread, Flat, LongSpread on
\* consecutive rows, charged the full tc_bps / 10000 on each of them.
C12_Witness ==
    /\ i = NRows
    /\ signals_position[1] = -1
    /\ signals_position[2] = 0
    /\ signals_position[3] = 1
    /\ \A t \in 1 .. 3 : \A tc \in TcBpsVals :
           TransactionCosts(signals_position, tc, t) = QNorm(tc, 10000)

----------------------------------------------------------------------------
(* Claims about generate_signals followed by compute_signal_pnl (SpecPnl) *)

\* The spread return over [t-1, t], y[t]/y[t-1] - 1 - hr (x[t]/x[t-1] - 1), times
\* the position p equals the fraction r, by cross-multiplication.
IsPositionTimesSpreadReturn(r, p, y, x, hr, t) ==
    /\ r[2] > 0
    /\ r[1] * (y[t - 1] * x[t - 1])
         = r[2] * p * ((y[t] - y[t - 1]) * x[t - 1] - hr * (x[t] - x[t - 1]) * y[t - 1])

\* C5: no lookahead: for two price paths that agree on every row <= t, with the
\* same hedge ratio, intercept, thresholds and cost, generate_signals followed by
\* compute_signal_pnl yields the same position at every row <= t and the same
\* strategy return, transaction cost and net return at row t; and the strategy
\* return at a row t >= 1 is the position of row t-1 times the spread return
\* realized over [t-1, t].
C5_NoLookahead ==
    pc = "done" =>
        /\ \A t \in 0 .. agree :
               signals[1].position[t] = signals[2].position[t]
        /\ pnl[1].strategy_return[agree] = pnl[2].strategy_return[agree]
        /\ pnl[1].transaction_costs[agree] = pnl[2].transaction_costs[agree]
        /\ pnl[1].net_return[agree] = pnl[2].net_return[agree]
        /\ \A r \in 1 .. 2 : \A t \in 1 .. PnlRows - 1 :
               IsPositionTimesSpreadReturn(pnl[r].strategy_return[t],
                                           signals[r].position[t - 1],
                                           prices[r].y, prices[r].x, hedge_ratio, t)

\* C5 witness: the two paths part after row agree, their positions differ on a
\* later row, and at row agree a position is held, earns a non-zero return and is
\* closed at a cost.
C5_Witness ==
    /\ pc = "done"
    /\ agree >= 1 /\ agree < PnlRows - 1
    /\ \E t \in agree + 1 .. PnlRows - 1 :
           signals[1].position[t] # signals[2].position[t]
    /\ signals[1].position[agree - 1] # 0
    /\ pnl[1].strategy_return[agree][1] # 0
    /\ pnl[1].transaction_costs[agree][1] # 0

----------------------------------------------------------------------------
(* Claims about the Kalman estimator (SpecKalman) *)

\* C6: online/batch equivalence: row 0 of filter's output is the configured
\* (beta0, P0), and for every row t >= 1 the hedge ratio, variance and forecast
\* error of filter's row t are the triple online_update(y[t], x[t], beta[t-1],
\* P[t-1]) returns on filter's row t-1, so that replaying online_update step by
\* step from (beta0, P0) reproduces filter's whole path.
C6_OnlineBatch ==
    kal_pc = "replay" =>
        /\ results.hedge_ratio[0] = initial_mean
        /\ results.hedge_ratio_std[0] = SqrtOf(initial_cov)
        /\ \A k \in 1 .. KalRows - 1 :
               online_update(delta, Ve, kal_y[k], kal_x[k],
                             results.hedge_ratio[k - 1], results.hedge_ratio_std[k - 1][2])
                 = <<results.hedge_ratio[k], results.hedge_ratio_std[k][2],
                     results.forecast_error[k]>>
        /\ \A k \in 1 .. Len(replay) :
               /\ replay[k].beta = results.hedge_ratio[k - 1]
               /\ replay[k].P = results.hedge_ratio_std[k - 1][2]
               /\ replay[k].e = results.forecast_error[k - 1]

\* C6 witness: a finished replay of a path on which every update moved the hedge
\* ratio and the variance.
C6_Witness ==
    /\ kal_pc = "replay"
    /\ Len(replay) = KalRows
    /\ \A k \in 2 .. KalRows :
           /\ replay[k].beta # replay[k - 1].beta
           /\ replay[k].P # replay[k - 1].P
           /\ replay[k].e[1] # 0

\* What a step with a zero regressor must do, from the previous row
\* (beta_prev, P_prev) to the new row (beta_new, P_new): the divisor S is
\* observation_noise and is not zero, the gain is 0, the hedge ratio is kept and
\* the variance grows by delta / (1 - delta).
ZeroRegressorStep(beta_prev, P_prev, beta_new, P_new) ==
    LET P_pred == QAdd(P_prev, Vw(delta))
        S      == InnovationVariance(P_pred, QInt(0), Ve)
    IN  /\ S = Ve
        /\ S # QInt(0)
        /\ Gain(P_pred, QInt(0), S) = QInt(0)
        /\ beta_new = beta_prev
        /\ P_new = P_pred

\* C11: for every estimator the constructor accepts, a step of filter or of
\* online_update with x_t = 0 divides by no zero: S is observation_noise, the
\* gain K is 0, the hedge ratio is unchanged and the new variance is
\* P_prev + delta / (1 - delta).
C11_ZeroRegressor ==
    [][ /\ (FilterStep /\ kal_x[kal_t] = QInt(0)) =>
               ZeroRegressorStep(beta[kal_t - 1], P[kal_t - 1],
                                 beta'[kal_t], P'[kal_t])
        /\ (OnlineStep /\ kal_x[Len(replay)] = QInt(0)) =>
               ZeroRegressorStep(replay[Len(replay)].beta, replay[Len(replay)].P,
                                 replay'[Len(replay')].beta, replay'[Len(replay')].P)
      ]_vars

----------------------------------------------------------------------------
(* Claims about screen_universe and run (SpecRun) *)

\* A step of screen_universe's loop is about to be taken.
InScreenLoop == run_pc = "screen" /\ scr_k < Len(Combinations(n_tickers))

\* C7: in screen_universe, a numerical failure raised while processing one
\* candidate pair, in the regression, the stationarity test or the half-life
\* step, causes only that pair to be skipped: screening goes on with the next
\* pair and the exception never leaves screen_universe.
C7_FailureSkipsPair ==
    [][ (InScreenLoop /\ (cand'.eg = "raise" \/ cand'.hl = "raise"))
        => /\ run_pc' = "screen"
           /\ scr_k' = scr_k + 1
           /\ valid_pairs' = valid_pairs
      ]_vars

\* C8: run handles every data error (too few instruments, insufficient overlap,
\* no pair passing the screen, no rows left after the training window) by
\* returning a result record instead of raising, and when no pair survives
\* screening the record has an empty return series and an empty metrics mapping.
C8_DataErrorsReturn ==
    /\ run_pc # "IndexError"
    /\ (run_pc = "returned" /\ valid_pairs = <<>>)
         => (result.portfolio_returns = <<>> /\ result.metrics = {})

\* C9: for a spread whose fitted theta is >= 0, estimate_half_life reports
\* +infinity and screen_universe does not put the pair in its output, whatever
\* the pair's cointegration p-value and whatever half-life bounds the tester
\* was constructed with.
C9_NonMeanRevertingRejected ==
    [][ (InScreenLoop /\ cand'.theta[1] >= 0)
        => /\ estimate_half_life(cand'.theta) = QInf
           /\ valid_pairs' = valid_pairs
      ]_vars

\* C10: screen_universe returns the surviving pairs in ascending order of
\* half-life and run trades the first max_pairs of that list, so no discarded
\* surviving pair has a strictly smaller half-life than a traded pair.
C10_FastestFirst ==
    run_pc \in {"screened", "pairs", "IndexError", "returned"} =>
        /\ \A a, b \in 1 .. Len(valid_pairs) :
               a < b => ~QLt(valid_pairs[b].half_life, valid_pairs[a].half_life)
        /\ (run_pc # "screened" /\ valid_pairs # <<>>) =>
               /\ Len(pairs) = Min(max_pairs, Len(valid_pairs))
               /\ \A j \in 1 .. Len(pairs) : pairs[j] = valid_pairs[j]
               /\ \A d \in 1 .. Len(valid_pairs) :
                      (\A j \in 1 .. Len(pairs) : pairs[j] # valid_pairs[d])
                      => \A j \in 1 .. Len(pairs) :
                             ~QLt(valid_pairs[d].half_life, pairs[j].half_life)

\* C10 witness: three pairs survive with three different half-lives, the pair
\* screened last is the fastest, and the cap discards the slowest.
C10_Witness ==
    /\ run_pc = "pairs"
    /\ Len(valid_pairs) = 3
    /\ Len(pairs) = 2
    /\ valid_pairs[1].ticker_y = 1
    /\ QLt(valid_pairs[1].half_life, valid_pairs[2].half_life)
    /\ QLt(valid_pairs[2].half_life, valid_pairs[3].half_life)

====
